---- MODULE Spec2Model ----
(***************************************************************************)
(* Retrieval engine of ai-agent-day1: the FAISS + SQLite vector store      *)
(* (day19/vector_store.py), the chunker and the embedding client           *)
(* (day17/document_indexer.py), the reranker (day19/reranker.py), the       *)
(* citation manager (day16/citation_manager.py) and the query orchestrator *)
(* (day15/rag_agent.py) as state machines.                                 *)
(*                                                                         *)
(* Disk state:   the documents table (durable part and the connection's    *)
(*               open transaction), the AUTOINCREMENT counter, the .faiss  *)
(*               sidecar file.                                             *)
(* Memory state: the FAISS index, index_to_id, and for every request       *)
(*               thread its position inside add_documents / search /       *)
(*               delete_by_source_file / clear_index.                      *)
(***************************************************************************)
EXTENDS Integers, Sequences, FiniteSets, TLC

\* ------------------------------------------------------------------ bounds
MaxChunks == 2      \* longest chunks / embeddings list handed to one add_documents call
MaxVectors == 2     \* vectors handed to index.add over a whole run
MaxTopK == 2        \* largest top_k of a search call
MaxTokens == 4      \* most tokens of a text handed to the chunker
MaxChunkSize == 3   \* largest chunk_size, and largest overlap, of a chunker
MaxTexts == 4       \* longest list of texts handed to generate_embeddings
MaxBatchSize == 2   \* largest batch_size given explicitly to generate_embeddings
MaxDocs == 3        \* longest list of documents handed to rerank
MaxIndexed == 3     \* vectors handed to index.add over a run of searches for the best match
MaxAnswerLen == 2   \* most pieces (bracketed or plain numbers) of an answer text
MaxSources == 3     \* largest num_sources of a validate_citations call

\* ------------------------------------------------------------------ inputs
Threads == {1, 2}   \* request threads of the Flask-SocketIO server (async_mode='threading')
MainThread == 1     \* the only thread of a single-threaded run

NullText == "NULL"  \* a chunk whose 'text' is None: the NOT NULL column rejects the row

Chunks ==
    { [text |-> "text",   source_file |-> "a.md", file_type |-> "markdown", chunk_index |-> 0],
      [text |-> "text",   source_file |-> "b.py", file_type |-> "code",     chunk_index |-> 0],
      [text |-> NullText, source_file |-> "a.md", file_type |-> "markdown", chunk_index |-> 1] }

PlainChunk == CHOOSE c \in Chunks : c.text # NullText /\ c.source_file = "a.md"

SourceFiles == {c.source_file : c \in Chunks}

\* 2-dimensional embeddings with an integral L2 norm
Embeddings == { <<2, 0>> }

Queries == { <<3, 0>> }

\* the embeddings, queries and filters of the runs that look at what search returns:
\* vectors along both axes in both directions, and the all-zero vector
SearchEmbeddings == { <<2, 0>>, <<0, 3>>, <<-2, 0>>, <<0, 0>> }
SearchQueries == { <<3, 0>>, <<0, 0>> }
MinSimilarities == { 0, 1 }
FileTypeFilters == { "", "markdown" }

SeqsUpTo(S, n) == UNION {[1..k -> S] : k \in 0..n}

Min(a, b) == IF a <= b THEN a ELSE b

\* ------------------------------------------------------------------- state
VARIABLES
    index,          \* self.index: the vectors of the FAISS IndexFlatIP, in ordinal order
    index_to_id,    \* self.index_to_id
    rows,           \* documents table as the connection sees it (open transaction included)
    seq,            \* sqlite_sequence of the documents table, as the connection sees it
    durable,        \* the committed documents table and sqlite_sequence, in the .db file
    sidecar,        \* the .faiss file: [state: "none" | "ok" | "corrupt", data: vectors]
    recent,         \* ids of the rows whose chunk_id was generated at the clock's current reading
    pc,             \* per thread: the position of its current call
    chunks,         \* per thread: add_documents argument
    embeddings,     \* per thread: add_documents argument
    i,              \* per thread: position of the zip(chunks, embeddings) loop
    added,          \* per thread: add_documents local
    row_id,         \* per thread: cursor.lastrowid
    arg,            \* per thread: arguments of delete_by_source_file / search
    candidates,     \* per thread: search local, the ordinals returned by index.search
    results,        \* per thread: search local
    ret,            \* per thread: what the last finished call returned
    base,           \* history, per thread: tag of the pair before the call's first pair
    nextTag,        \* history: number of (chunk, embedding) pairs handed to index.add so far
    pairing,        \* history: <<row id, tag>> of every row inserted so far
    events,         \* history: "rowfail" (an INSERT of add_documents failed), "removed" (rows
                    \* were deleted), "savefail" (the latest write of the sidecar failed)
    chunker,        \* a DocumentChunker and its chunk_text call: pc, chunk_size, overlap,
                    \* text, total_tokens, start_idx, chunk_idx, chunks, ret
    embedder,       \* an EmbeddingGenerator's generate_embeddings call: pc, texts,
                    \* batch_size, single, i, all_embeddings, ret, and as history the
                    \* positions of the texts whose request failed
    reranker,       \* a DocumentReranker's rerank call: pc, documents (the list and the
                    \* dicts in it), top_k, scores, ret (the returned list, as positions
                    \* in documents: it holds the same dicts), and as history the
                    \* documents as they were handed in and how the scoring went
    citations,      \* a CitationManager's validate_citations call: pc, response_text,
                    \* num_sources, strict, ret
    agent           \* a RAGAgent's query: pc, the method entered and the mode it runs
                    \* in, the arguments, the locals (lists hold references into heap,
                    \* the dicts), responses, ret, and as history the dicts as search
                    \* returned them (found), the calls made to the collaborators and
                    \* the contexts sent to the generation model (prompts)

store == <<index, index_to_id, rows, seq, durable, sidecar>>
disk == <<durable, sidecar>>
addLocals == <<chunks, embeddings, i, added, row_id, base>>
searchLocals == <<candidates, results>>
history == <<nextTag, pairing, events>>
storeVars == <<store, recent, pc, addLocals, arg, searchLocals, ret, history>>
components == <<chunker, embedder, reranker, citations, agent>>
vars == <<storeVars, components>>

NoArg == [op |-> "none"]
NoRet == [op |-> "none"]

AllIdle == \A t \in Threads : pc[t] = "idle"

\* a DocumentChunker that has not been called, with the defaults scaled down
NewChunker ==
    [pc |-> "idle", chunk_size |-> MaxChunkSize, overlap |-> 1, text |-> <<>>,
     total_tokens |-> 0, start_idx |-> 0, chunk_idx |-> 0, chunks |-> <<>>, ret |-> NoRet]

\* an EmbeddingGenerator that has not been called
NewEmbedder ==
    [pc |-> "idle", texts |-> <<>>, batch_size |-> 0, single |-> FALSE, i |-> 0,
     all_embeddings |-> <<>>, ret |-> NoRet, failed |-> {}]

\* a DocumentReranker that has not been called
NewReranker ==
    [pc |-> "idle", documents |-> <<>>, top_k |-> 0, scores |-> <<>>, ret |-> NoRet,
     before |-> <<>>, outcome |-> "none"]

\* a CitationManager whose validate_citations has not been called
NewCitations ==
    [pc |-> "idle", response_text |-> <<>>, num_sources |-> 0, strict |-> FALSE,
     ret |-> NoRet]

\* a RAGAgent that has not been asked
NewAgent ==
    [pc |-> "idle", entry |-> "", mode |-> "", reranker |-> FALSE, top_k |-> 0,
     top_k_final |-> 0, rerank_threshold |-> [given |-> FALSE, value |-> 0],
     query_embedding |-> "", heap |-> <<>>, search_results |-> <<>>,
     top_without_rerank |-> <<>>, documents |-> <<>>, scored |-> FALSE, scores |-> <<>>,
     sides |-> <<>>, responses |-> <<>>, ret |-> NoRet,
     found |-> <<>>, calls |-> <<>>, prompts |-> <<>>]

Init ==
    /\ chunker = NewChunker
    /\ embedder = NewEmbedder
    /\ reranker = NewReranker
    /\ citations = NewCitations
    /\ agent = NewAgent
    /\ index = <<>>
    /\ index_to_id = <<>>
    /\ rows = {}
    /\ seq = 0
    /\ durable = [rows |-> {}, seq |-> 0]
    /\ sidecar = [state |-> "none", data |-> <<>>]
    /\ recent = {}
    /\ pc = [t \in Threads |-> "idle"]
    /\ chunks = [t \in Threads |-> <<>>]
    /\ embeddings = [t \in Threads |-> <<>>]
    /\ i = [t \in Threads |-> 0]
    /\ added = [t \in Threads |-> 0]
    /\ row_id = [t \in Threads |-> 0]
    /\ arg = [t \in Threads |-> NoArg]
    /\ candidates = [t \in Threads |-> <<>>]
    /\ results = [t \in Threads |-> <<>>]
    /\ ret = [t \in Threads |-> NoRet]
    /\ base = [t \in Threads |-> 0]
    /\ nextTag = 0
    /\ pairing = {}
    /\ events = {}

\* the (chunks, embeddings) arguments of add_documents calls: every pair of lists of
\* equal length, and the pairs of lists of unequal length over one kind of chunk (the
\* early returns look at the lengths only)
AddInputs ==
    {in \in SeqsUpTo(Chunks, MaxChunks) \X SeqsUpTo(Embeddings, MaxChunks) :
        \/ Len(in[1]) = Len(in[2])
        \/ \A k \in 1..Len(in[1]) : in[1][k] = PlainChunk}

\* the arguments of the calls of two concurrent threads: one well-formed chunk each
ConcAddInputs ==
    {in \in AddInputs : Len(in[1]) = 1 /\ Len(in[2]) = 1 /\ in[1][1].text # NullText}

\* the arguments of the add_documents calls that fill the store for the searches: one
\* chunk and its embedding, two chunks of either file
SearchAddInputs ==
    LET a == CHOOSE c \in Chunks : c.text # NullText /\ c.file_type = "markdown"
        b == CHOOSE c \in Chunks : c.text # NullText /\ c.file_type = "code"
    IN  { <<<<a>>, <<<<2, 0>>>>>>, <<<<a>>, <<<<0, 0>>>>>>,
          <<<<b>>, <<<<0, 3>>>>>>, <<<<b>>, <<<<-2, 0>>>>>> }

\* ------------------------------------------------------------ pure helpers

\* np.linalg.norm of one row (the inputs have an integral norm)
Norm(v) == CHOOSE n \in 0..(v[1] * v[1] + v[2] * v[2]) : n * n = v[1] * v[1] + v[2] * v[2]

\* faulty variant of NormalizeVector: the vector is handed on as it came
NormalizeVectorSkipped(v) == v

\* _normalize_vectors, one row: norms[norms == 0] = 1; vectors / norms
NormalizeVector(v) ==
    LET n == IF Norm(v) = 0 THEN 1 ELSE Norm(v)
    IN  <<v[1] \div n, v[2] \div n>>

\* inner product, the metric of IndexFlatIP
InnerProduct(u, v) == u[1] * v[1] + u[2] * v[2]

\* _generate_chunk_id: md5 of source_file, chunk_index and datetime.now(). Two chunk_ids
\* are equal when source_file and chunk_index are equal and the clock gave the same
\* reading; recent holds the ids of the rows whose chunk_id carries the clock's
\* current reading, and ticked says that the clock has moved on since.
ChunkIdTaken(c, ticked) ==
    /\ ~ticked
    /\ \E r \in rows : /\ r.id \in recent
                       /\ r.source_file = c.source_file
                       /\ r.chunk_index = c.chunk_index

\* faulty variant of Rejects: the comparison of the two lengths is missing
RejectsNoLengthCheck(cs, es) == Len(cs) = 0 \/ Len(es) = 0

\* the early returns of add_documents
Rejects(cs, es) == Len(cs) = 0 \/ Len(es) = 0 \/ Len(cs) # Len(es)

\* length of zip(chunks, embeddings)
ZipLen(cs, es) == Min(Len(cs), Len(es))

\* SELECT id FROM documents ORDER BY id
RECURSIVE OrderedIds(_)
OrderedIds(ids) ==
    IF ids = {} THEN <<>>
    ELSE LET m == CHOOSE x \in ids : \A y \in ids : x <= y
         IN  <<m>> \o OrderedIds(ids \ {m})

\* faulty variant of InitFaissIndex: whatever an unreadable file yields is kept
InitFaissIndexNoFallback(file) == IF file.state = "none" THEN <<>> ELSE file.data

\* _init_faiss_index: faiss.read_index of an existing file; a missing file, or one
\* that read_index raises on, gives a new IndexFlatIP
InitFaissIndex(file) == IF file.state = "ok" THEN file.data ELSE <<>>

\* get_statistics
Statistics == [total_chunks |-> Cardinality(rows), index_size |-> Len(index)]

\* --------------------------------------------------------- add_documents

\* vectors that the calls waiting at the early returns will hand to index.add
RECURSIVE PendingOf(_)
PendingOf(T) ==
    IF T = {} THEN 0
    ELSE LET t == CHOOSE u \in T : TRUE
         IN  Len(embeddings[t]) + PendingOf(T \ {t})
Pending ==
    PendingOf({t \in Threads : pc[t] = "add_validate" /\ ~Rejects(chunks[t], embeddings[t])})

\* a request thread enters add_documents(chunks, embeddings), in a run that hands at
\* most budget vectors to index.add
AddCallUpTo(t, cs, es, budget) ==
    /\ pc[t] = "idle"
    /\ Rejects(cs, es) \/ nextTag + Pending + Len(es) <= budget
    /\ pc' = [pc EXCEPT ![t] = "add_validate"]
    /\ chunks' = [chunks EXCEPT ![t] = cs]
    /\ embeddings' = [embeddings EXCEPT ![t] = es]
    /\ ret' = [ret EXCEPT ![t] = NoRet]
    /\ UNCHANGED <<store, recent, i, added, row_id, base, arg, searchLocals, history>>
    /\ UNCHANGED components

\* a request thread enters add_documents(chunks, embeddings)
AddCall(t, cs, es) == AddCallUpTo(t, cs, es, MaxVectors)

\* lines 132-145: the early returns, then normalize and index.add(vectors)
AddValidate(t) ==
    /\ pc[t] = "add_validate"
    /\ IF Rejects(chunks[t], embeddings[t])
       THEN /\ pc' = [pc EXCEPT ![t] = "idle"]
            /\ ret' = [ret EXCEPT ![t] =
                        [op |-> "add", value |-> 0,
                         log |-> IF Len(chunks[t]) = 0 \/ Len(embeddings[t]) = 0
                                 THEN "No chunks or embeddings provided"
                                 ELSE "Mismatch"]]
            /\ chunks' = [chunks EXCEPT ![t] = <<>>]
            /\ embeddings' = [embeddings EXCEPT ![t] = <<>>]
            /\ UNCHANGED <<index, i, added, base, nextTag>>
       ELSE /\ index' = index \o [k \in 1..Len(embeddings[t]) |->
                                    [vec |-> NormalizeVector(embeddings[t][k]),
                                     tag |-> nextTag + k]]
            /\ base' = [base EXCEPT ![t] = nextTag]
            /\ nextTag' = nextTag + Len(embeddings[t])
            /\ i' = [i EXCEPT ![t] = 1]
            /\ added' = [added EXCEPT ![t] = 0]
            /\ pc' = [pc EXCEPT ![t] = "add_insert"]
            /\ UNCHANGED <<chunks, embeddings, ret>>
    /\ UNCHANGED <<index_to_id, rows, seq, durable, sidecar, recent, row_id, arg,
                   searchLocals, pairing, events>>
    /\ UNCHANGED components

\* where the zip(chunks, embeddings) loop goes after the pair at position i
AfterPair(t) ==
    IF i[t] + 1 > ZipLen(chunks[t], embeddings[t]) THEN "add_commit" ELSE "add_insert"

\* faulty variant of NextRowId: a table without AUTOINCREMENT gives the largest id in
\* the table plus one
NextRowIdOfTable(table, counter) ==
    IF table = {} THEN 1
    ELSE (CHOOSE m \in {r.id : r \in table} : \A r \in table : r.id <= m) + 1

\* line 66, id INTEGER PRIMARY KEY AUTOINCREMENT: the id of the next row is one more than
\* the largest id the table has ever held, which sqlite_sequence keeps
NextRowId(table, counter) == counter + 1

\* lines 151-174 and 178-181: generate the chunk_id and INSERT the row; a row the
\* table rejects (NOT NULL chunk_text, UNIQUE chunk_id) is logged and skipped, and
\* takes no id from the AUTOINCREMENT counter
AddInsertRow(t) ==
    /\ pc[t] = "add_insert"
    /\ \E ticked \in BOOLEAN :
        LET c == chunks[t][i[t]]
            fails == c.text = NullText \/ ChunkIdTaken(c, ticked)
            id == NextRowId(rows, seq)
            sameInstant == IF ticked THEN {} ELSE recent
        IN  IF fails
            THEN /\ events' = events \cup {"rowfail"}
                 /\ i' = [i EXCEPT ![t] = i[t] + 1]
                 /\ pc' = [pc EXCEPT ![t] = AfterPair(t)]
                 /\ recent' = sameInstant
                 /\ UNCHANGED <<rows, seq, row_id, pairing>>
            ELSE /\ rows' = rows \cup {[id |-> id,
                                         source_file |-> c.source_file,
                                         file_type |-> c.file_type,
                                         chunk_index |-> c.chunk_index,
                                         tag |-> base[t] + i[t]]}
                 /\ seq' = id
                 /\ row_id' = [row_id EXCEPT ![t] = id]
                 /\ recent' = sameInstant \cup {id}
                 /\ pairing' = pairing \cup {<<id, base[t] + i[t]>>}
                 /\ pc' = [pc EXCEPT ![t] = "add_append"]
                 /\ UNCHANGED <<i, events>>
    /\ UNCHANGED <<index, index_to_id, durable, sidecar, chunks, embeddings, added, base,
                   arg, searchLocals, ret, nextTag>>
    /\ UNCHANGED components

\* lines 175-176: self.index_to_id.append(row_id); added += 1
AddAppendMapping(t) ==
    /\ pc[t] = "add_append"
    /\ index_to_id' = Append(index_to_id, row_id[t])
    /\ added' = [added EXCEPT ![t] = added[t] + 1]
    /\ i' = [i EXCEPT ![t] = i[t] + 1]
    /\ pc' = [pc EXCEPT ![t] = AfterPair(t)]
    /\ UNCHANGED <<index, rows, seq, durable, sidecar, recent, chunks, embeddings, row_id,
                   base, arg, searchLocals, ret, history>>
    /\ UNCHANGED components

\* line 183: self.conn.commit() makes the connection's open transaction durable
AddCommit(t) ==
    /\ pc[t] = "add_commit"
    /\ durable' = [rows |-> rows, seq |-> seq]
    /\ pc' = [pc EXCEPT ![t] = "add_save"]
    /\ UNCHANGED <<index, index_to_id, rows, seq, sidecar, recent, addLocals, arg,
                   searchLocals, ret, history>>
    /\ UNCHANGED components

\* _save_faiss_index: faiss.write_index(self.index, path); a failure is logged and
\* swallowed, and leaves the old file or a partly written one (data is then what the
\* writer was writing, which no reader can use)
SaveFaissIndex(file, outcome) ==
    CASE outcome = "ok"      -> [state |-> "ok", data |-> index]
      [] outcome = "failed"  -> file
      [] outcome = "partial" -> [state |-> "corrupt", data |-> index]

\* lines 185-190: save the index, return added
AddSave(t) ==
    /\ pc[t] = "add_save"
    /\ \E outcome \in {"ok", "failed", "partial"} :
        /\ sidecar' = SaveFaissIndex(sidecar, outcome)
        /\ events' = IF outcome = "ok" THEN events \ {"savefail"}
                     ELSE events \cup {"savefail"}
    /\ ret' = [ret EXCEPT ![t] = [op |-> "add", value |-> added[t], log |-> "Added"]]
    /\ pc' = [pc EXCEPT ![t] = "idle"]
    /\ chunks' = [chunks EXCEPT ![t] = <<>>]
    /\ embeddings' = [embeddings EXCEPT ![t] = <<>>]
    /\ i' = [i EXCEPT ![t] = 0]
    /\ added' = [added EXCEPT ![t] = 0]
    /\ row_id' = [row_id EXCEPT ![t] = 0]
    /\ base' = [base EXCEPT ![t] = 0]
    /\ UNCHANGED <<index, index_to_id, rows, seq, durable, recent, arg, searchLocals,
                   nextTag, pairing>>
    /\ UNCHANGED components

AddDocuments(t, inputs) ==
    \/ \E in \in inputs : AddCall(t, in[1], in[2])
    \/ AddValidate(t)
    \/ AddInsertRow(t)
    \/ AddAppendMapping(t)
    \/ AddCommit(t)
    \/ AddSave(t)

\* ------------------------------------------------- delete_by_source_file

\* faulty variant of DeletedRows: the WHERE clause is missing
DeletedRowsAnyFile(source_file) == rows

\* DELETE FROM documents WHERE source_file = ?
DeletedRows(source_file) == {r \in rows : r.source_file = source_file}

\* a request thread enters delete_by_source_file(source_file)
DeleteCall(t, source_file) ==
    /\ pc[t] = "idle"
    /\ pc' = [pc EXCEPT ![t] = "delete"]
    /\ arg' = [arg EXCEPT ![t] = [op |-> "delete", source_file |-> source_file]]
    /\ ret' = [ret EXCEPT ![t] = NoRet]
    /\ UNCHANGED <<store, recent, addLocals, searchLocals, history>>
    /\ UNCHANGED components

\* lines 369-377: DELETE, cursor.rowcount, commit; the FAISS index is left alone
DeleteBySourceFile(t) ==
    /\ pc[t] = "delete"
    /\ LET gone == DeletedRows(arg[t].source_file)
       IN  /\ rows' = rows \ gone
           /\ durable' = [rows |-> rows \ gone, seq |-> seq]
           /\ recent' = recent \ {r.id : r \in gone}
           /\ ret' = [ret EXCEPT ![t] = [op |-> "delete", value |-> Cardinality(gone)]]
    /\ events' = events \cup {"removed"}
    /\ pc' = [pc EXCEPT ![t] = "idle"]
    /\ arg' = [arg EXCEPT ![t] = NoArg]
    /\ UNCHANGED <<index, index_to_id, seq, sidecar, addLocals, searchLocals, nextTag,
                   pairing>>
    /\ UNCHANGED components

Delete(t) ==
    \/ \E f \in SourceFiles : DeleteCall(t, f)
    \/ DeleteBySourceFile(t)

\* ------------------------------------------------------------ clear_index

\* a request thread enters clear_index()
ClearCall(t) ==
    /\ pc[t] = "idle"
    /\ pc' = [pc EXCEPT ![t] = "clear"]
    /\ ret' = [ret EXCEPT ![t] = NoRet]
    /\ UNCHANGED <<store, recent, addLocals, arg, searchLocals, history>>
    /\ UNCHANGED components

\* lines 341-346: os.remove of an existing file; a failure is logged and swallowed
RemoveFile(file, removed) ==
    IF file.state # "none" /\ removed THEN [state |-> "none", data |-> <<>>] ELSE file

\* lines 338-354: new index, remove the sidecar, DELETE FROM documents, commit,
\* empty mapping; DELETE leaves sqlite_sequence as it is
ClearIndex(t) ==
    /\ pc[t] = "clear"
    /\ index' = <<>>
    /\ \E removed \in BOOLEAN : sidecar' = RemoveFile(sidecar, removed)
    /\ rows' = {}
    /\ durable' = [rows |-> {}, seq |-> seq]
    /\ index_to_id' = <<>>
    /\ recent' = {}
    /\ events' = events \cup {"removed"}
    /\ ret' = [ret EXCEPT ![t] = [op |-> "clear"]]
    /\ pc' = [pc EXCEPT ![t] = "idle"]
    /\ UNCHANGED <<seq, addLocals, arg, searchLocals, nextTag, pairing>>
    /\ UNCHANGED components

Clear(t) ==
    \/ ClearCall(t)
    \/ ClearIndex(t)

\* ----------------------------------------------------------------- search

\* faulty variant of FaissSearch: the k best ordinals, in any order
FaissSearchUnordered(query_vector, k) ==
    LET n == Len(index)
        dist(o) == InnerProduct(query_vector, index[o + 1].vec)
    IN  { [j \in 1..k |-> [idx |-> f[j], distance |-> dist(f[j])]] :
            f \in { g \in [1..k -> 0..(n - 1)] :
                      /\ \A a, b \in 1..k : a < b => g[a] # g[b]
                      /\ \A o \in 0..(n - 1) :
                            (\A a \in 1..k : g[a] # o) => \A a \in 1..k : dist(g[a]) >= dist(o) } }

\* index.search(query_vector, k) of an IndexFlatIP: k distinct ordinals (0-based) with
\* their inner products, best first; the order among equal products is not specified
FaissSearch(query_vector, k) ==
    LET n == Len(index)
        dist(o) == InnerProduct(query_vector, index[o + 1].vec)
    IN  { [j \in 1..k |-> [idx |-> f[j], distance |-> dist(f[j])]] :
            f \in { g \in [1..k -> 0..(n - 1)] :
                      /\ \A a, b \in 1..k : a < b => g[a] # g[b] /\ dist(g[a]) >= dist(g[b])
                      /\ \A o \in 0..(n - 1) :
                            (\A a \in 1..k : g[a] # o) => \A a \in 1..k : dist(g[a]) >= dist(o) } }

\* a request thread enters search(query_embedding, top_k, min_similarity, file_type)
SearchCall(t, q, top_k, min_similarity, file_type) ==
    /\ pc[t] = "idle"
    /\ pc' = [pc EXCEPT ![t] = "search_faiss"]
    /\ arg' = [arg EXCEPT ![t] = [op |-> "search", query_embedding |-> q, top_k |-> top_k,
                                  min_similarity |-> min_similarity,
                                  file_type |-> file_type]]
    /\ ret' = [ret EXCEPT ![t] = NoRet]
    /\ UNCHANGED <<store, recent, addLocals, searchLocals, history>>
    /\ UNCHANGED components

\* lines 206-223: empty index returns []; else normalize the query and ask FAISS for
\* min(top_k * 2, ntotal) candidates
SearchFaiss(t) ==
    /\ pc[t] = "search_faiss"
    /\ IF Len(index) = 0
       THEN /\ ret' = [ret EXCEPT ![t] = [op |-> "search", value |-> <<>>]]
            /\ pc' = [pc EXCEPT ![t] = "idle"]
            /\ arg' = [arg EXCEPT ![t] = NoArg]
            /\ UNCHANGED searchLocals
       ELSE /\ \E c \in FaissSearch(NormalizeVector(arg[t].query_embedding),
                                    Min(arg[t].top_k * 2, Len(index))) :
                    candidates' = [candidates EXCEPT ![t] = c]
            /\ results' = [results EXCEPT ![t] = <<>>]
            /\ pc' = [pc EXCEPT ![t] = "search_rows"]
            /\ UNCHANGED <<arg, ret>>
    /\ UNCHANGED <<store, recent, addLocals, history>>
    /\ UNCHANGED components

\* faulty variant of SearchSkips: the two filters are missing
SearchSkipsUnfiltered(idx, similarity, found, min_similarity, file_type) ==
    idx = -1 \/ idx >= Len(index_to_id) \/ found = {}

\* lines 227-267: the tests of the loop that pass over a candidate (found: the rows
\* of SELECT ... WHERE id = index_to_id[idx], none when idx is not mapped)
SearchSkips(idx, similarity, found, min_similarity, file_type) ==
    \/ idx = -1
    \/ similarity < min_similarity
    \/ idx >= Len(index_to_id)
    \/ found = {}
    \/ \E r \in found : file_type # "" /\ r.file_type # file_type

\* faulty variant of FetchRow: WHERE id >= ?, so that fetchone sees a later row when
\* the row asked for is gone
FetchRowFrom(table, id) == {r \in table : r.id >= id}

\* lines 251-258: SELECT ... FROM documents WHERE id = ?, as the set of rows found
FetchRow(table, id) == {r \in table : r.id = id}

\* lines 225-288: one pass of the loop over the candidates, and the return
SearchCandidate(t) ==
    /\ pc[t] = "search_rows"
    /\ LET cand == Head(candidates[t])
           idx == cand.idx
           similarity == cand.distance
           mapped == idx < Len(index_to_id)
           found == IF mapped THEN FetchRow(rows, index_to_id[idx + 1]) ELSE {}
           skip == SearchSkips(idx, similarity, found, arg[t].min_similarity,
                               arg[t].file_type)
           out == IF skip THEN results[t]
                  ELSE LET r == CHOOSE r \in found : TRUE
                       IN  Append(results[t], [source_file |-> r.source_file,
                                               file_type |-> r.file_type,
                                               chunk_index |-> r.chunk_index,
                                               similarity |-> similarity,
                                               tag |-> r.tag])
           done == (~skip /\ Len(out) >= arg[t].top_k) \/ Len(candidates[t]) = 1
       IN  IF done
           THEN /\ ret' = [ret EXCEPT ![t] = [op |-> "search", value |-> out]]
                /\ pc' = [pc EXCEPT ![t] = "idle"]
                /\ arg' = [arg EXCEPT ![t] = NoArg]
                /\ candidates' = [candidates EXCEPT ![t] = <<>>]
                /\ results' = [results EXCEPT ![t] = <<>>]
           ELSE /\ candidates' = [candidates EXCEPT ![t] = Tail(candidates[t])]
                /\ results' = [results EXCEPT ![t] = out]
                /\ UNCHANGED <<pc, arg, ret>>
    /\ UNCHANGED <<store, recent, addLocals, history>>
    /\ UNCHANGED components

Search(t) ==
    \/ \E q \in Queries, top_k \in 1..MaxTopK : SearchCall(t, q, top_k, 0, "")
    \/ SearchFaiss(t)
    \/ SearchCandidate(t)

\* search with any of the queries, thresholds and file type filters
SearchFiltered(t) ==
    \/ \E q \in SearchQueries, top_k \in 1..MaxTopK, min_similarity \in MinSimilarities,
          file_type \in FileTypeFilters : SearchCall(t, q, top_k, min_similarity, file_type)
    \/ SearchFaiss(t)
    \/ SearchCandidate(t)

\* search for the best match (top_k = 1), with any of the queries, thresholds and file
\* type filters
OverfetchSearch(t) ==
    \/ \E q \in SearchQueries, min_similarity \in MinSimilarities,
          file_type \in FileTypeFilters : SearchCall(t, q, 1, min_similarity, file_type)
    \/ SearchFaiss(t)
    \/ SearchCandidate(t)

\* ---------------------------------------------- construction, restart, crash

\* faulty variant of LoadExistingMappings: ORDER BY id is missing, and the table hands
\* out its newest row first
LoadExistingMappingsUnordered(table) ==
    LET ids == {r.id : r \in table}
    IN  IF ids = {} THEN <<>>
        ELSE LET m == CHOOSE x \in ids : \A y \in ids : x >= y
             IN  <<m>> \o OrderedIds(ids \ {m})

\* _load_existing_mappings: SELECT id FROM documents ORDER BY id
LoadExistingMappings(table) == OrderedIds({r.id : r \in table})

\* __init__ on the files file (the sidecar) and db (the database): _init_database
\* opens the table as committed, _init_faiss_index, _load_existing_mappings; the
\* new process has no call in progress and its clock reads later than any before
Construct(file, db) ==
    /\ rows' = db.rows
    /\ seq' = db.seq
    /\ index' = InitFaissIndex(file)
    /\ index_to_id' = LoadExistingMappings(db.rows)
    /\ recent' = {}
    /\ pc' = [t \in Threads |-> "idle"]
    /\ chunks' = [t \in Threads |-> <<>>]
    /\ embeddings' = [t \in Threads |-> <<>>]
    /\ i' = [t \in Threads |-> 0]
    /\ added' = [t \in Threads |-> 0]
    /\ row_id' = [t \in Threads |-> 0]
    /\ base' = [t \in Threads |-> 0]
    /\ arg' = [t \in Threads |-> NoArg]
    /\ candidates' = [t \in Threads |-> <<>>]
    /\ results' = [t \in Threads |-> <<>>]
    /\ ret' = [t \in Threads |-> NoRet]

\* close() with no call in progress, then a new VectorStore on the same db_path
Restart ==
    /\ AllIdle
    /\ Construct(sidecar, durable)
    /\ UNCHANGED <<disk, history>>
    /\ UNCHANGED components

\* the process stops at any point, also in the middle of a call, and a new
\* VectorStore is constructed on the same db_path: the open transaction is rolled
\* back, and a faiss.write_index that was under way leaves a partly written file
Crash ==
    /\ \E file \in {sidecar} \cup
                   {[state |-> "corrupt", data |-> index] : t \in {u \in Threads : pc[u] = "add_save"}} :
            /\ sidecar' = file
            /\ Construct(file, durable)
    /\ UNCHANGED <<durable, history>>
    /\ UNCHANGED components

\* ------------------------------------------------- DocumentChunker.chunk_text

\* a text as the tokenizer sees it: the sequence of its tokens, each a word or a run
\* of whitespace (encode gives one id per token and decode gives the text back)
Texts == SeqsUpTo({"word", " "}, MaxTokens)

\* not text or not text.strip()
IsBlank(text) == \A k \in 1..Len(text) : text[k] = " "

\* len(tokens[start:end]): a negative bound counts from the end of the list, and
\* both bounds are clipped to the list
SliceLen(start, end, total) ==
    LET clip(x) == IF x < 0 THEN (IF x + total < 0 THEN 0 ELSE x + total)
                   ELSE Min(x, total)
    IN  IF clip(end) > clip(start) THEN clip(end) - clip(start) ELSE 0

\* faulty variant of NextStart: the overlap is added instead of subtracted
NextStartPastOverlap(start_idx, chunk_size, overlap) == start_idx + chunk_size + overlap

\* line 89: start_idx += self.chunk_size - self.overlap
NextStart(start_idx, chunk_size, overlap) == start_idx + chunk_size - overlap

\* DocumentChunker(chunk_size, overlap).chunk_text(text): __init__ stores the two
\* sizes as they come
ChunkTextCall(text, chunk_size, overlap) ==
    /\ chunker.pc = "idle"
    /\ chunker' = [NewChunker EXCEPT !.pc = "tokenize", !.chunk_size = chunk_size,
                                     !.overlap = overlap, !.text = text]
    /\ UNCHANGED <<storeVars, embedder, reranker, citations, agent>>

\* lines 44-54: blank text returns []; else tokenize and set up the loop
ChunkTokenize ==
    /\ chunker.pc = "tokenize"
    /\ chunker' = IF IsBlank(chunker.text)
                  THEN [chunker EXCEPT !.pc = "idle",
                                       !.ret = [op |-> "chunk", value |-> <<>>]]
                  ELSE [chunker EXCEPT !.pc = "loop", !.total_tokens = Len(chunker.text)]
    /\ UNCHANGED <<storeVars, embedder, reranker, citations, agent>>

\* lines 56-92: one pass of the while loop, or its exit and the return; a call that
\* has made more than MaxTokens chunks is followed no further
ChunkLoop ==
    /\ chunker.pc = "loop"
    /\ Len(chunker.chunks) <= MaxTokens
    /\ IF chunker.start_idx < chunker.total_tokens
       THEN LET end_idx == Min(chunker.start_idx + chunker.chunk_size, chunker.total_tokens)
                chunk_meta ==
                    [chunk_index |-> chunker.chunk_idx,
                     start_token |-> chunker.start_idx,
                     end_token |-> end_idx,
                     token_count |-> SliceLen(chunker.start_idx, end_idx,
                                              chunker.total_tokens),
                     total_tokens |-> chunker.total_tokens]
            IN  chunker' = [chunker EXCEPT
                              !.chunks = Append(chunker.chunks, chunk_meta),
                              !.chunk_idx = chunker.chunk_idx + 1,
                              !.start_idx = NextStart(chunker.start_idx, chunker.chunk_size,
                                                      chunker.overlap)]
       ELSE chunker' = [chunker EXCEPT !.pc = "idle",
                                       !.ret = [op |-> "chunk", value |-> chunker.chunks]]
    /\ UNCHANGED <<storeVars, embedder, reranker, citations, agent>>

ChunkText ==
    \/ \E text \in Texts, chunk_size \in 1..MaxChunkSize, overlap \in 0..MaxChunkSize :
          ChunkTextCall(text, chunk_size, overlap)
    \/ ChunkTokenize
    \/ ChunkLoop

\* ------------------------------------ EmbeddingGenerator.generate_embeddings

\* the texts of the chunks, and what the embeddings API answers for each
EmbedTexts == {"t1", "t2"}
EmbeddingOf == [t \in EmbedTexts |-> IF t = "t1" THEN "e1" ELSE "e2"]

None == "None"

\* batch_size when the caller gives none
DefaultBatchSize == 100

\* faulty variant of FailureMarkers: one marker for the whole batch
FailureMarkersOnePerBatch(batch) == <<None>>

\* line 146: [None] * len(batch)
FailureMarkers(batch) == [k \in 1..Len(batch) |-> None]

\* line 138: [item.embedding for item in response.data], one item per input, in order
BatchEmbeddings(batch) == [k \in 1..Len(batch) |-> EmbeddingOf[batch[k]]]

\* generate_embeddings(texts, batch_size), or generate_single_embedding(text) when
\* single, which calls generate_embeddings([text])
EmbedCall(texts, batch_size, single) ==
    /\ embedder.pc = "idle"
    /\ embedder' = [NewEmbedder EXCEPT !.pc = "start", !.texts = texts,
                                       !.batch_size = batch_size, !.single = single]
    /\ UNCHANGED <<storeVars, chunker, reranker, citations, agent>>

\* what the call returns: the list, or for generate_single_embedding its first entry
EmbedReturn(all_embeddings) ==
    [op |-> "embed",
     value |-> IF ~embedder.single THEN all_embeddings
               ELSE IF Len(all_embeddings) > 0 THEN all_embeddings[1] ELSE None]

\* lines 122-125: no texts returns []; else start with an empty list
EmbedStart ==
    /\ embedder.pc = "start"
    /\ embedder' = IF Len(embedder.texts) = 0
                   THEN [embedder EXCEPT !.pc = "idle", !.ret = EmbedReturn(<<>>)]
                   ELSE [embedder EXCEPT !.pc = "batch"]
    /\ UNCHANGED <<storeVars, chunker, reranker, citations, agent>>

\* lines 128-148: one pass of the loop over range(0, len(texts), batch_size), whose
\* request succeeds or raises, or the end of the loop and the return
EmbedBatch ==
    /\ embedder.pc = "batch"
    /\ IF embedder.i < Len(embedder.texts)
       THEN LET last == Min(embedder.i + embedder.batch_size, Len(embedder.texts))
                batch == SubSeq(embedder.texts, embedder.i + 1, last)
            IN  \E raised \in BOOLEAN :
                    embedder' = [embedder EXCEPT
                        !.all_embeddings =
                            embedder.all_embeddings \o
                                (IF raised THEN FailureMarkers(batch)
                                 ELSE BatchEmbeddings(batch)),
                        !.failed = IF raised THEN embedder.failed \cup ((embedder.i + 1)..last)
                                   ELSE embedder.failed,
                        !.i = embedder.i + embedder.batch_size]
       ELSE embedder' = [embedder EXCEPT !.pc = "idle",
                                         !.ret = EmbedReturn(embedder.all_embeddings)]
    /\ UNCHANGED <<storeVars, chunker, reranker, citations, agent>>

GenerateEmbeddings ==
    \/ \E texts \in SeqsUpTo(EmbedTexts, MaxTexts), batch_size \in 1..MaxBatchSize :
          EmbedCall(texts, batch_size, FALSE)
    \/ \E text \in EmbedTexts : EmbedCall(<<text>>, DefaultBatchSize, TRUE)
    \/ EmbedStart
    \/ EmbedBatch

\* ------------------------------------------------ DocumentReranker.rerank

\* the scores of the cross-encoder
ScoreValues == {1, 2, 3}

\* n search results that no rerank call has seen: dicts without the four keys that
\* rerank sets (keys: which of them the dict has)
FreshDocuments(n) ==
    [k \in 1..n |-> [id |-> k, keys |-> {}, rerank_score |-> 0, original_rank |-> 0,
                     reranked_rank |-> 0, rank_change |-> 0]]

\* the dicts of the list that the last call returned
Returned ==
    IF reranker.ret.op = "rerank"
    THEN [k \in 1..Len(reranker.ret.value) |-> reranker.documents[reranker.ret.value[k]]]
    ELSE <<>>

\* the lists a caller hands to rerank: fresh search results, the list it handed to the
\* last call, or the list the last call returned
RerankInputs == {FreshDocuments(n) : n \in 0..MaxDocs} \cup {reranker.documents, Returned}

\* faulty variant of SortByScore: reverse=True is missing
RECURSIVE SortByScoreAscending(_, _)
SortByScoreAscending(scores, S) ==
    IF S = {} THEN <<>>
    ELSE LET m == CHOOSE x \in S :
                    \A y \in S : scores[x] < scores[y] \/ (scores[x] = scores[y] /\ x <= y)
         IN  <<m>> \o SortByScoreAscending(scores, S \ {m})

\* line 88: sorted(documents, key=rerank_score, reverse=True), as the positions S of
\* the documents in their new order; the sort is stable, also when reversed
RECURSIVE SortByScore(_, _)
SortByScore(scores, S) ==
    IF S = {} THEN <<>>
    ELSE LET m == CHOOSE x \in S :
                    \A y \in S : scores[x] > scores[y] \/ (scores[x] = scores[y] /\ x <= y)
         IN  <<m>> \o SortByScore(scores, S \ {m})

\* faulty variant of FirstTopK: the list is not cut
FirstTopKUncut(list, top_k) == list

\* list[:top_k], top_k >= 0
FirstTopK(list, top_k) == SubSeq(list, 1, Min(top_k, Len(list)))

\* a caller enters rerank(query, documents, top_k)
RerankCall(documents, top_k) ==
    /\ reranker.pc = "idle"
    /\ reranker' = [NewReranker EXCEPT !.pc = "predict", !.documents = documents,
                                       !.top_k = top_k, !.before = documents]
    /\ UNCHANGED <<storeVars, chunker, embedder, citations, agent>>

\* lines 60-78 and 108-111: no documents returns []; else build the pairs and ask the
\* model for the scores; when that raises, return documents[:top_k]
RerankPredict ==
    /\ reranker.pc = "predict"
    /\ LET n == Len(reranker.documents)
       IN  IF n = 0
           THEN reranker' = [reranker EXCEPT !.pc = "idle", !.outcome = "empty",
                                             !.ret = [op |-> "rerank", value |-> <<>>]]
           ELSE \/ \E scores \in [1..n -> ScoreValues] :
                      reranker' = [reranker EXCEPT !.pc = "rank", !.scores = scores]
                \/ reranker' = [reranker EXCEPT
                                  !.pc = "idle", !.outcome = "failed",
                                  !.ret = [op |-> "rerank",
                                           value |-> FirstTopK([k \in 1..n |-> k],
                                                               reranker.top_k)]]
    /\ UNCHANGED <<storeVars, chunker, embedder, citations, agent>>

\* lines 80-106: set rerank_score, and original_rank where the dict has none; sort;
\* set reranked_rank and rank_change; return the first top_k
RerankRank ==
    /\ reranker.pc = "rank"
    /\ LET n == Len(reranker.documents)
           reranked == SortByScore(reranker.scores, 1..n)
           new_rank(k) == CHOOSE r \in 1..n : reranked[r] = k
           original_rank(k) == IF "original_rank" \in reranker.documents[k].keys
                               THEN reranker.documents[k].original_rank
                               ELSE k
       IN  reranker' = [reranker EXCEPT
               !.documents = [k \in 1..n |->
                   [id |-> reranker.documents[k].id,
                    keys |-> {"rerank_score", "original_rank", "reranked_rank",
                              "rank_change"},
                    rerank_score |-> reranker.scores[k],
                    original_rank |-> original_rank(k),
                    reranked_rank |-> new_rank(k),
                    rank_change |-> original_rank(k) - new_rank(k)]],
               !.pc = "idle", !.outcome = "scored",
               !.ret = [op |-> "rerank", value |-> FirstTopK(reranked, reranker.top_k)]]
    /\ UNCHANGED <<storeVars, chunker, embedder, citations, agent>>

Rerank ==
    \/ \E documents \in RerankInputs, top_k \in 1..MaxTopK : RerankCall(documents, top_k)
    \/ RerankPredict
    \/ RerankRank

\* ------------------------------------- CitationManager.validate_citations

\* the pieces of an answer: a run of decimal digits (most significant first), between
\* square brackets or not; "[]" has no digit
AnswerTokens ==
    { [bracketed |-> TRUE,  digits |-> <<>>],
      [bracketed |-> TRUE,  digits |-> <<0>>],
      [bracketed |-> TRUE,  digits |-> <<1>>],
      [bracketed |-> TRUE,  digits |-> <<3>>],
      [bracketed |-> TRUE,  digits |-> <<0, 2>>],
      [bracketed |-> FALSE, digits |-> <<1>>] }

\* the answers of the generation model
Answers == SeqsUpTo(AnswerTokens, MaxAnswerLen)

\* int(c) of a string of decimal digits
RECURSIVE IntOf(_)
IntOf(digits) ==
    IF digits = <<>> THEN 0
    ELSE 10 * IntOf(SubSeq(digits, 1, Len(digits) - 1)) + digits[Len(digits)]

\* lines 149-151: set(re.findall(r'\[(\d+)\]', response_text)), then int of each
FoundCitations(response_text) ==
    LET matches == {response_text[k].digits : k \in {j \in 1..Len(response_text) :
                        /\ response_text[j].bracketed
                        /\ Len(response_text[j].digits) >= 1}}
    IN  {IntOf(c) : c \in matches}

\* line 153: set(range(1, num_sources + 1))
ExpectedCitations(num_sources) == 1..num_sources

\* faulty variant of Cited: every number found counts as cited
CitedUnchecked(found, expected) == found

\* line 156
Cited(found, expected) == found \cap expected

\* lines 168-171
IsValid(strict, has_citations, all_cited, no_invalid) ==
    IF strict THEN all_cited /\ no_invalid ELSE has_citations /\ no_invalid

\* sorted(list(S))
Sorted(S) == OrderedIds(S)

\* lines 149-186: the result dictionary; citation_rate is the quotient num / den
ValidateCitations(response_text, num_sources, strict) ==
    LET found == FoundCitations(response_text)
        expected == ExpectedCitations(num_sources)
        cited == Cited(found, expected)
        missing == expected \ found
        invalid == found \ expected
        has_citations == Cardinality(cited) > 0
        all_cited == Cardinality(missing) = 0
        no_invalid == Cardinality(invalid) = 0
    IN  [is_valid |-> IsValid(strict, has_citations, all_cited, no_invalid),
         has_citations |-> has_citations,
         all_cited |-> all_cited,
         no_invalid |-> no_invalid,
         citation_rate |-> IF num_sources > 0
                           THEN [num |-> Cardinality(cited), den |-> num_sources]
                           ELSE [num |-> 0, den |-> 1],
         num_sources |-> num_sources,
         num_cited |-> Cardinality(cited),
         num_missing |-> Cardinality(missing),
         num_invalid |-> Cardinality(invalid),
         cited |-> Sorted(cited),
         missing |-> Sorted(missing),
         invalid |-> Sorted(invalid)]

\* a caller enters validate_citations(response_text, num_sources, strict)
ValidateCall(response_text, num_sources, strict) ==
    /\ citations.pc = "idle"
    /\ citations' = [NewCitations EXCEPT !.pc = "validate",
                                         !.response_text = response_text,
                                         !.num_sources = num_sources, !.strict = strict]
    /\ UNCHANGED <<storeVars, chunker, embedder, reranker, agent>>

\* lines 149-198
ValidateReturn ==
    /\ citations.pc = "validate"
    /\ citations' = [citations EXCEPT
           !.pc = "idle",
           !.ret = [op |-> "validate",
                    value |-> ValidateCitations(citations.response_text,
                                                citations.num_sources, citations.strict)]]
    /\ UNCHANGED <<storeVars, chunker, embedder, reranker, agent>>

Validate ==
    \/ \E response_text \in Answers, num_sources \in 0..MaxSources, strict \in BOOLEAN :
           ValidateCall(response_text, num_sources, strict)
    \/ ValidateReturn

\* ------------------------------------------------------------------ RAGAgent

\* the public query methods of a RAGAgent
Entries ==
    {"query_with_rag", "query_with_rag_reranking", "compare_responses",
     "compare_with_reranking"}

\* rerank_threshold: None (given is FALSE), or a score
Thresholds ==
    { [given |-> FALSE, value |-> 0], [given |-> TRUE, value |-> 0],
      [given |-> TRUE, value |-> 2] }

\* lines 142 and 280, line 579: the two wordings of the message
NoDocumentsInKnowledgeBase == "No relevant documents found in the knowledge base."
NoDocumentsFound == "No relevant documents found."

\* doc.get('rerank_score', 0)
RerankScoreOf(doc) == IF "rerank_score" \in doc.keys THEN doc.rerank_score ELSE 0

\* the dicts of a list of references into the heap of dicts
Deref(heap, list) == [k \in 1..Len(list) |-> heap[list[k]]]

\* faulty variant of FilterByThreshold: > in place of >=
FilterAboveThreshold(heap, list, threshold) ==
    SelectSeq(list, LAMBDA ref : RerankScoreOf(heap[ref]) > threshold)

\* lines 299-302 (the same test as DocumentReranker.filter_by_threshold)
FilterByThreshold(heap, list, threshold) ==
    SelectSeq(list, LAMBDA ref : RerankScoreOf(heap[ref]) >= threshold)

\* faulty variant of CopyDocuments: the list handed to rerank holds the same dicts
CopyDocumentsShared(heap, list) == [heap |-> heap, list |-> list]

\* line 503: [dict(doc) for doc in search_results], new dicts at the end of the heap
CopyDocuments(heap, list) ==
    [heap |-> heap \o Deref(heap, list),
     list |-> [k \in 1..Len(list) |-> Len(heap) + k]]

\* DocumentReranker.rerank(query, documents, top_k) on a non-empty list of dicts of the
\* heap, with the scores of the model: the dicts are written, the list is sorted and
\* cut (lines 80-106)
RerankScored(heap, documents, scores, top_k) ==
    LET n == Len(documents)
        reranked == SortByScore(scores, 1..n)
        new_rank(k) == CHOOSE r \in 1..n : reranked[r] = k
        position(ref) == CHOOSE k \in 1..n : documents[k] = ref
        original_rank(k) == IF "original_rank" \in heap[documents[k]].keys
                            THEN heap[documents[k]].original_rank
                            ELSE k
        written(k) == [id |-> heap[documents[k]].id,
                       keys |-> {"rerank_score", "original_rank", "reranked_rank",
                                 "rank_change"},
                       rerank_score |-> scores[k],
                       original_rank |-> original_rank(k),
                       reranked_rank |-> new_rank(k),
                       rank_change |-> original_rank(k) - new_rank(k)]
    IN  [heap |-> [ref \in 1..Len(heap) |->
                      IF \E k \in 1..n : documents[k] = ref
                      THEN written(position(ref)) ELSE heap[ref]],
         list |-> FirstTopK([r \in 1..n |-> documents[reranked[r]]], top_k)]

\* the context that a method puts under "Documents:" for the chunks it was given:
\* lines 141-169 (query_with_rag) and 578-624 (_generate_response_from_chunks) put the
\* message in place of no chunks, lines 310-342 (query_with_rag_reranking) join
\* whatever there is; parts are the dicts as they are rendered, "[Document i: ...]"
BuildContext(via, heap, list) ==
    IF Len(list) = 0 /\ via = "query_with_rag"
    THEN [kind |-> "message", text |-> NoDocumentsInKnowledgeBase, parts |-> <<>>]
    ELSE IF Len(list) = 0 /\ via = "_generate_response_from_chunks"
    THEN [kind |-> "message", text |-> NoDocumentsFound, parts |-> <<>>]
    ELSE [kind |-> "documents", text |-> "", parts |-> Deref(heap, list)]

\* a RAGAgent, constructed with a reranker or (get_reranker failed, lines 42-49)
\* without one, is asked; lines 261-263 and 468-470 hand the call on when there is no
\* reranker, and compare_responses begins with query_without_rag
AgentCall(entry, has_reranker, top_k_retrieve, top_k_final, rerank_threshold) ==
    /\ agent.pc = "idle"
    /\ LET mode == CASE entry = "query_with_rag" -> "with_rag"
                     [] entry = "compare_responses" -> "compare_responses"
                     [] entry = "query_with_rag_reranking" ->
                            IF has_reranker THEN "with_rag_reranking" ELSE "with_rag"
                     [] entry = "compare_with_reranking" ->
                            IF has_reranker THEN "compare_with_reranking"
                            ELSE "compare_responses"
       IN  agent' = [NewAgent EXCEPT
               !.pc = IF mode = "compare_responses" THEN "without_rag" ELSE "embed",
               !.entry = entry, !.mode = mode, !.reranker = has_reranker,
               !.top_k = IF mode \in {"with_rag", "compare_responses"} THEN top_k_final
                         ELSE top_k_retrieve,
               !.top_k_final = top_k_final,
               !.rerank_threshold = rerank_threshold]
    /\ UNCHANGED <<storeVars, chunker, embedder, reranker, citations>>

\* lines 66-104, query_without_rag: the generation model is asked the bare question;
\* when it raises, the response is the error
QueryWithoutRag ==
    /\ agent.pc = "without_rag"
    /\ \E raised \in BOOLEAN :
          agent' = [agent EXCEPT
              !.pc = "embed",
              !.calls = Append(agent.calls, "generate"),
              !.prompts = Append(agent.prompts,
                                 [side |-> "without_rag",
                                  context |-> [kind |-> "question", text |-> "",
                                               parts |-> <<>>]]),
              !.responses = Append(agent.responses,
                                   [mode |-> "without_rag",
                                    answer |-> IF raised THEN "Error" ELSE "answer",
                                    chunks_used |-> <<>>])]
    /\ UNCHANGED <<storeVars, chunker, embedder, reranker, citations>>

\* lines 129, 267, 474: generate_single_embedding(question), None when the request failed
AgentEmbed ==
    /\ agent.pc = "embed"
    /\ \E query_embedding \in {"vector", None} :
          agent' = [agent EXCEPT !.pc = "search",
                                 !.calls = Append(agent.calls, "embed"),
                                 !.query_embedding = query_embedding]
    /\ UNCHANGED <<storeVars, chunker, embedder, reranker, citations>>

\* the responses of a call that an exception has ended (lines 215-224, 395-405, 547-555)
ErrorResponses(mode, responses) ==
    IF mode = "compare_with_reranking"
    THEN << [mode |-> "without_reranking", answer |-> "Error", chunks_used |-> <<>>],
            [mode |-> "with_reranking", answer |-> "Error", chunks_used |-> <<>>] >>
    ELSE Append(responses, [mode |-> mode, answer |-> "Error", chunks_used |-> <<>>])

\* the sides that the generation model is asked for, after the search and the
\* reranking: which method renders the context, and for which chunks
Side(mode, via, list) == [mode |-> mode, via |-> via, chunks |-> list]

\* lines 132-136, 270-288, 476-503: vector_store.search returns at most top_k fresh
\* dicts; with the embedding None it returns [] (empty index) or raises. No result
\* ends query_with_rag_reranking and compare_with_reranking at once
AgentSearch ==
    /\ agent.pc = "search"
    /\ \E n \in 0..agent.top_k, raised \in BOOLEAN :
        /\ agent.query_embedding = None => n = 0
        /\ raised => agent.query_embedding = None
        /\ LET called == Append(agent.calls, "search")
               search_results == [k \in 1..n |-> k]
               found == FreshDocuments(n)
               copy == CopyDocuments(found, search_results)
               no_documents(mode) ==
                   [mode |-> mode, answer |-> NoDocumentsInKnowledgeBase,
                    chunks_used |-> <<>>]
           IN  IF raised
               THEN agent' = [agent EXCEPT
                       !.pc = "idle", !.calls = called,
                       !.ret = [op |-> "query",
                                value |-> ErrorResponses(agent.mode, agent.responses)]]
               ELSE CASE agent.mode \in {"with_rag", "compare_responses"} ->
                           agent' = [agent EXCEPT
                               !.pc = "generate", !.calls = called, !.heap = found,
                               !.found = found, !.search_results = search_results,
                               !.sides = << Side("with_rag", "query_with_rag",
                                                 search_results) >>]
                      [] agent.mode = "with_rag_reranking" ->
                           agent' = [agent EXCEPT
                               !.pc = IF n = 0 THEN "idle" ELSE "rerank",
                               !.calls = called, !.heap = found, !.found = found,
                               !.search_results = search_results,
                               !.documents = search_results,
                               !.ret = IF n = 0
                                       THEN [op |-> "query",
                                             value |-> <<no_documents(agent.mode)>>]
                                       ELSE agent.ret]
                      [] agent.mode = "compare_with_reranking" ->
                           agent' = [agent EXCEPT
                               !.pc = IF n = 0 THEN "idle" ELSE "rerank",
                               !.calls = called, !.heap = copy.heap, !.found = found,
                               !.search_results = search_results,
                               !.top_without_rerank =
                                   FirstTopK(search_results, agent.top_k_final),
                               !.documents = copy.list,
                               !.ret = IF n = 0
                                       THEN [op |-> "query",
                                             value |-> <<no_documents("without_reranking"),
                                                         no_documents("with_reranking")>>]
                                       ELSE agent.ret]
    /\ UNCHANGED <<storeVars, chunker, embedder, reranker, citations>>

\* lines 291-302 and 504-508: reranker.rerank(question, documents, top_k_final), which
\* returns documents[:top_k] untouched when its model raises; query_with_rag_reranking
\* then drops what is below rerank_threshold
AgentRerank ==
    /\ agent.pc = "rerank"
    /\ \E scored \in BOOLEAN, scores \in [1..Len(agent.documents) -> ScoreValues] :
        /\ ~scored => \A k \in 1..Len(scores) : scores[k] = 1
        /\ LET out == IF scored
                      THEN RerankScored(agent.heap, agent.documents, scores,
                                        agent.top_k_final)
                      ELSE [heap |-> agent.heap,
                            list |-> FirstTopK(agent.documents, agent.top_k_final)]
               kept == IF agent.rerank_threshold.given
                       THEN FilterByThreshold(out.heap, out.list,
                                              agent.rerank_threshold.value)
                       ELSE out.list
           IN  agent' = [agent EXCEPT
                   !.pc = "generate",
                   !.calls = Append(agent.calls, "rerank"),
                   !.heap = out.heap,
                   !.scored = scored,
                   !.scores = IF scored THEN scores ELSE <<>>,
                   !.sides =
                       IF agent.mode = "with_rag_reranking"
                       THEN << Side("with_rag_reranking", "query_with_rag_reranking",
                                    kept) >>
                       ELSE << Side("without_reranking", "_generate_response_from_chunks",
                                    agent.top_without_rerank),
                               Side("with_reranking", "_generate_response_from_chunks",
                                    out.list) >>]
    /\ UNCHANGED <<storeVars, chunker, embedder, reranker, citations>>

\* lines 141-213, 310-393, 578-666: build the context of the next side, ask the
\* generation model, and return when no side is left; when the model raises, the
\* side's response is the error (lines 215-224, 395-405, 668-677)
AgentGenerate ==
    /\ agent.pc = "generate"
    /\ \E raised \in BOOLEAN :
        LET side == Head(agent.sides)
            context == BuildContext(side.via, agent.heap, side.chunks)
            response == [mode |-> side.mode,
                         answer |-> IF raised THEN "Error" ELSE "answer",
                         chunks_used |-> IF raised THEN <<>> ELSE context.parts]
            responses == Append(agent.responses, response)
            last == Len(agent.sides) = 1
        IN  agent' = [agent EXCEPT
                !.pc = IF last THEN "idle" ELSE "generate",
                !.calls = Append(agent.calls, "generate"),
                !.prompts = Append(agent.prompts,
                                   [side |-> side.mode, context |-> context]),
                !.sides = Tail(agent.sides),
                !.responses = responses,
                !.ret = IF last THEN [op |-> "query", value |-> responses]
                        ELSE agent.ret]
    /\ UNCHANGED <<storeVars, chunker, embedder, reranker, citations>>

Query ==
    \/ \E entry \in Entries, has_reranker \in BOOLEAN, top_k_retrieve \in 1..MaxDocs,
          top_k_final \in 1..MaxTopK, rerank_threshold \in Thresholds :
           AgentCall(entry, has_reranker, top_k_retrieve, top_k_final, rerank_threshold)
    \/ QueryWithoutRag
    \/ AgentEmbed
    \/ AgentSearch
    \/ AgentRerank
    \/ AgentGenerate

\* -------------------------------------------------------- specifications

\* a single-threaded run of the operations that change the store
Next ==
    \/ \E t \in {MainThread} : AddDocuments(t, AddInputs) \/ Delete(t) \/ Clear(t)
    \/ Restart

Spec == Init /\ [][Next]_vars

\* two request threads calling add_documents and search on the shared store; search
\* changes nothing in the store and is left out of the runs above and below, which
\* look at what the store holds
NextConc == \E t \in Threads : AddDocuments(t, ConcAddInputs) \/ Search(t)

SpecConc == Init /\ [][NextConc]_vars

\* a single-threaded run of add_documents calls on one VectorStore
NextAdd == \E t \in {MainThread} : AddDocuments(t, AddInputs)

SpecAdd == Init /\ [][NextAdd]_vars

\* a single-threaded run of add_documents calls, interrupted by crashes
NextCrash ==
    \/ \E t \in {MainThread} : AddDocuments(t, AddInputs)
    \/ Crash

SpecCrash == Init /\ [][NextCrash]_vars

\* a single-threaded run of add_documents and search calls
NextSearch ==
    \E t \in {MainThread} : AddDocuments(t, SearchAddInputs) \/ SearchFiltered(t)

SpecSearch == Init /\ [][NextSearch]_vars

\* a single-threaded run of add_documents, delete_by_source_file and (unfiltered)
\* search calls
NextSearchDelete ==
    \E t \in {MainThread} :
        AddDocuments(t, SearchAddInputs) \/ Delete(t) \/ Search(t)

SpecSearchDelete == Init /\ [][NextSearchDelete]_vars

\* a single-threaded run of add_documents calls and of searches for the best match,
\* over an index that may hold more vectors than the top_k * 2 that search asks FAISS for
NextOverfetch ==
    \E t \in {MainThread} :
        \/ \E in \in SearchAddInputs : AddCallUpTo(t, in[1], in[2], MaxIndexed)
        \/ AddValidate(t)
        \/ AddInsertRow(t)
        \/ AddAppendMapping(t)
        \/ AddCommit(t)
        \/ AddSave(t)
        \/ OverfetchSearch(t)

SpecOverfetch == Init /\ [][NextOverfetch]_vars

\* chunk_text calls on chunkers of every configuration
NextChunk == ChunkText

SpecChunk == Init /\ [][NextChunk]_vars

\* generate_embeddings and generate_single_embedding calls against an embeddings API
\* that may fail any request
NextEmbed == GenerateEmbeddings

SpecEmbed == Init /\ [][NextEmbed]_vars

\* rerank calls, on fresh search results and on the lists of earlier calls, against a
\* model that may fail any request
NextRerank == Rerank

SpecRerank == Init /\ [][NextRerank]_vars

\* validate_citations calls, in both modes
NextCite == Validate

SpecCite == Init /\ [][NextCite]_vars

\* queries to RAGAgents with and without a reranker, against collaborators that may
\* fail any request
NextQuery == Query

SpecQuery == Init /\ [][NextQuery]_vars

\* ------------------------------------------------------------------ claims

\* every ANN position is mapped, and mapped to the row inserted with its vector
Aligned ==
    /\ Len(index_to_id) = Len(index)
    /\ \A k \in 1..Len(index_to_id) : <<index_to_id[k], index[k].tag>> \in pairing

\* C1: after any sequence of add() calls on one store (single thread, no delete, no
\* clear), whether or not a row insert failed, len(index_to_id) equals the ANN vector
\* count and equals the number of rows of the documents table.
C1_IndexRowConsistency ==
    pc[MainThread] = "idle" =>
        /\ Len(index_to_id) = Len(index)
        /\ Len(index) = Cardinality(rows)

\* C2: in every state of a store driven by add, delete_by_source_file, clear and
\* restart, with no call in progress, len(index_to_id) equals the ANN vector count and
\* index_to_id[i] is the row inserted together with the vector at ANN position i.
C2_MappingAligned == pc[MainThread] = "idle" => Aligned

\* C3: a search() that runs concurrently with an add() never observes a state in which
\* the ANN vector count and len(index_to_id) differ: when the search, having queried
\* the ANN index, goes on to read index_to_id while the add() is under way, the two
\* lengths agree.
C3_SearchSeesConsistentLengths ==
    \A s, a \in Threads :
        (pc[s] = "search_rows"
            /\ pc[a] \in {"add_insert", "add_append", "add_commit", "add_save"})
        => Len(index) = Len(index_to_id)

\* C4: concurrent add() calls serialize: once they have all returned (every row insert
\* having succeeded), each ANN position maps to the row added with its vector, as
\* after running the calls one after the other.
C4_ConcurrentAddsSerialize ==
    (AllIdle /\ "rowfail" \notin events) => Aligned

\* C5: within an add() call the row is inserted before its vector is appended to the
\* ANN index: the index never holds a vector whose row has not been inserted.
C5_RowInsertedBeforeVector ==
    \A k \in 1..Len(index) : index[k].tag \in {p[2] : p \in pairing}

\* C6: whenever the process stops, the persisted sidecar may hold fewer vectors than
\* there are committed rows, but holds no vector whose row is not committed.
C6_SidecarNeverAheadOfRows ==
    sidecar.state = "ok" =>
        \A k \in 1..Len(sidecar.data) : sidecar.data[k].tag \in {r.tag : r \in durable.rows}

\* C7: add(chunks, embeddings) with len(chunks) # len(embeddings) returns 0 and leaves
\* the ANN index, index_to_id, the documents table and the sidecar file unchanged.
C7_MismatchRejected ==
    [][\A t \in Threads :
          (pc[t] = "add_validate" /\ pc'[t] # "add_validate"
              /\ Len(chunks[t]) # Len(embeddings[t]))
          => /\ pc'[t] = "idle"
             /\ ret'[t].op = "add" /\ ret'[t].value = 0
             /\ UNCHANGED <<index, index_to_id, rows, seq, durable, sidecar>>]_vars

\* C7 witness: a mismatched add() has returned 0 on a store that holds documents
C7_Witness ==
    /\ pc[MainThread] = "idle"
    /\ ret[MainThread] = [op |-> "add", value |-> 0, log |-> "Mismatch"]
    /\ Len(index) > 0 /\ rows # {} /\ sidecar.state = "ok"

C9_LoadFailureFailsOpen ==
    [][(AllIdle /\ sidecar.state = "corrupt")
          => /\ ENABLED Restart
             /\ Restart => (index' = <<>> /\ rows' = rows /\ durable' = durable
                                /\ index_to_id' = LoadExistingMappings(rows))]_vars

\* C9 witness: a store constructed on an unreadable sidecar, with rows in the table
C9_Witness ==
    /\ AllIdle /\ ret[MainThread] = NoRet
    /\ sidecar.state = "corrupt" /\ Len(sidecar.data) > 0
    /\ index = <<>> /\ rows # {}

\* C10: delete_by_source_file(name) removes exactly the rows whose source_file is name
\* and returns their number; total_chunks decreases by it; index_size, the ANN index,
\* index_to_id and the rows of the other files are unchanged.
C10_DeleteFrame ==
    [][\A t \in Threads :
          (pc[t] = "delete" /\ pc'[t] # "delete")
          => LET gone == {r \in rows : r.source_file = arg[t].source_file}
             IN  /\ rows' = rows \ gone
                 /\ ret'[t].op = "delete" /\ ret'[t].value = Cardinality(gone)
                 /\ Cardinality(rows') = Statistics.total_chunks - ret'[t].value
                 /\ Len(index') = Statistics.index_size
                 /\ index' = index /\ index_to_id' = index_to_id]_vars

\* C10 witness: a delete has removed the rows of one file and left another file's row
C10_Witness ==
    /\ pc[MainThread] = "idle"
    /\ ret[MainThread].op = "delete" /\ ret[MainThread].value >= 1
    /\ rows # {} /\ Statistics.index_size > Statistics.total_chunks

\* C11: after clear(), from any reachable state, the ANN index is empty, index_to_id is
\* empty, the documents table has no rows and the sidecar file does not exist; a search
\* then returns no result (it finds ntotal = 0) and a store constructed afterwards on
\* the same path is empty.
C11_ClearEmpties ==
    (pc[MainThread] = "idle" /\ ret[MainThread].op = "clear")
    => /\ index = <<>> /\ index_to_id = <<>> /\ rows = {} /\ durable.rows = {}
       /\ sidecar.state = "none"
       /\ InitFaissIndex(sidecar) = <<>>
       /\ LoadExistingMappings(durable.rows) = <<>>

\* C12: for every search() call in every reachable state of the store, the returned
\* results are in non-increasing order of similarity.
C12_SearchOrdering ==
    \A t \in Threads :
        ret[t].op = "search"
        => \A a, b \in 1..Len(ret[t].value) :
              a < b => ret[t].value[a].similarity >= ret[t].value[b].similarity

\* C12 witness: a search has returned two results of different similarity
C12_Witness ==
    /\ ret[MainThread].op = "search"
    /\ Len(ret[MainThread].value) = 2
    /\ ret[MainThread].value[1].similarity > ret[MainThread].value[2].similarity

\* C13: every search(query, top_k, min_similarity, file_type) call returns at most top_k
\* results, and every returned result has similarity >= min_similarity and, when a
\* file_type filter is given, a file_type equal to the filter.
C13_SearchLimitsAndFilters ==
    [][\A t \in Threads :
          (pc[t] \in {"search_faiss", "search_rows"} /\ pc'[t] = "idle")
          => LET v == ret'[t].value
             IN  /\ Len(v) <= arg[t].top_k
                 /\ \A k \in 1..Len(v) :
                       /\ v[k].similarity >= arg[t].min_similarity
                       /\ arg[t].file_type # "" => v[k].file_type = arg[t].file_type]_vars

\* C13 witness: a filtered search over two vectors has kept the first candidate, has
\* not yet filled its top_k, and is about to pass over the second, which is below the
\* threshold
C13_Witness ==
    /\ pc[MainThread] = "search_rows"
    /\ arg[MainThread].top_k = 2
    /\ arg[MainThread].min_similarity = 1
    /\ arg[MainThread].file_type = "markdown"
    /\ Len(index) = 2
    /\ Len(results[MainThread]) = 1
    /\ Len(candidates[MainThread]) = 1
    /\ candidates[MainThread][1].distance < arg[MainThread].min_similarity

\* the similarities that search has computed or returned lie in [-1, 1], and were
\* computed from the normalized query
SimilaritiesBounded ==
    \A t \in Threads :
        /\ ret[t].op = "search"
           => \A k \in 1..Len(ret[t].value) :
                 ret[t].value[k].similarity >= -1 /\ ret[t].value[k].similarity <= 1
        /\ pc[t] = "search_rows"
           => \A k \in 1..Len(candidates[t]) :
                 LET c == candidates[t][k]
                 IN  /\ c.distance = InnerProduct(NormalizeVector(arg[t].query_embedding),
                                                  index[c.idx + 1].vec)
                     /\ c.distance >= -1 /\ c.distance <= 1

\* C14 (as claimed): every vector held in the ANN index has unit L2 norm, for every
\* embedding accepted by add() (the all-zero embedding included), the query vector is
\* normalized by the same rule, and every returned similarity lies in [-1, 1].
C14_UnitNorm ==
    /\ \A k \in 1..Len(index) : Norm(index[k].vec) = 1
    /\ SimilaritiesBounded

\* C14 (amended): every vector held in the ANN index has unit L2 norm or is the all-zero
\* vector (an all-zero embedding is accepted and stored as it is), the query vector is
\* normalized by the same rule, and every returned similarity lies in [-1, 1].
C14_UnitNormOrZero ==
    /\ \A k \in 1..Len(index) : Norm(index[k].vec) = 1 \/ index[k].vec = <<0, 0>>
    /\ SimilaritiesBounded

\* C14 witness: a search has returned results from an index that holds a unit vector
\* and the all-zero vector
C14_Witness ==
    /\ ret[MainThread].op = "search" /\ Len(ret[MainThread].value) = 2
    /\ \E k \in 1..Len(index) : index[k].vec = <<0, 0>>
    /\ \E k \in 1..Len(index) : Norm(index[k].vec) = 1

\* C15: chunk(text, metadata, chunk_size, overlap) terminates for every configuration:
\* with 0 <= overlap < chunk_size it returns finitely many chunks (the window advances,
\* so no more chunks than tokens), and with overlap >= chunk_size it fails with an
\* InvalidConfiguration error instead of entering the loop, which would never end.
C15_ChunkTerminates ==
    /\ chunker.pc = "loop" => chunker.overlap < chunker.chunk_size
    /\ Len(chunker.chunks) <= chunker.total_tokens

\* C16: for any non-empty text and any 0 <= overlap < chunk_size, the chunks' token
\* ranges [start_token, end_token), in chunk_index order, begin at 0, end at
\* total_tokens, and each starts no later than the end of the one before, so their
\* union is [0, total_tokens) with no gap; blank text yields zero chunks.
C16_ChunkCoverage ==
    (chunker.ret.op = "chunk" /\ chunker.overlap < chunker.chunk_size)
    => LET v == chunker.ret.value
           total == Len(chunker.text)
       IN  IF IsBlank(chunker.text) THEN v = <<>>
           ELSE /\ Len(v) >= 1
                /\ v[1].start_token = 0
                /\ v[Len(v)].end_token = total
                /\ \A k \in 1..Len(v) :
                      /\ v[k].chunk_index = k - 1
                      /\ v[k].total_tokens = total
                      /\ v[k].start_token < v[k].end_token
                      /\ k > 1 => v[k].start_token <= v[k - 1].end_token
                /\ \A p \in 0..(total - 1) :
                      \E k \in 1..Len(v) : v[k].start_token <= p /\ p < v[k].end_token

\* C16 witness: a text has been split into three or more overlapping chunks
C16_Witness ==
    /\ chunker.ret.op = "chunk"
    /\ chunker.overlap >= 1 /\ chunker.overlap < chunker.chunk_size
    /\ Len(chunker.ret.value) >= 3

\* C17: embed_batch(texts, batch_size) never raises on an upstream failure and always
\* returns a sequence of the same length as texts, position-aligned with it: every
\* text of a batch whose request failed gets a failure marker (None), and the texts of
\* every other batch get their embeddings (embed_single returns the one entry).
C17_EmbedBatchAligned ==
    /\ embedder.pc = "batch" => ENABLED EmbedBatch
    /\ embedder.ret.op = "embed"
       => LET v == embedder.ret.value
              expected(k) == IF k \in embedder.failed THEN None
                             ELSE EmbeddingOf[embedder.texts[k]]
          IN  IF embedder.single THEN v = expected(1)
              ELSE /\ Len(v) = Len(embedder.texts)
                   /\ \A k \in 1..Len(v) : v[k] = expected(k)

\* C17 witness: a call over several batches has returned, one batch having failed and
\* another having succeeded
C17_Witness ==
    /\ embedder.ret.op = "embed" /\ ~embedder.single
    /\ Len(embedder.texts) >= 3
    /\ Cardinality(embedder.failed) = 2

\* the positions, in the list handed to rerank, of the documents the call returned
ReturnedPositions == {reranker.ret.value[k] : k \in 1..Len(reranker.ret.value)}

\* C18: rerank(query, candidates, top_k) scores the whole candidate set before
\* truncating and returns its results in non-increasing rerank_score order: no
\* candidate that is dropped has a higher cross-encoder score than one that is returned.
C18_RerankCompleteness ==
    reranker.outcome = "scored"
    => LET docs == reranker.documents
           v == reranker.ret.value
       IN  /\ Len(v) = Min(reranker.top_k, Len(docs))
           /\ \A k \in 1..Len(docs) :
                 /\ "rerank_score" \in docs[k].keys
                 /\ docs[k].rerank_score = reranker.scores[k]
           /\ \A a, b \in 1..Len(v) :
                 a < b => docs[v[a]].rerank_score >= docs[v[b]].rerank_score
           /\ \A kept \in ReturnedPositions, dropped \in (1..Len(docs)) \ ReturnedPositions :
                 docs[dropped].rerank_score <= docs[kept].rerank_score

\* C18 witness: a call has dropped a candidate that came first in its input, and has
\* returned two candidates of different scores
C18_Witness ==
    /\ reranker.outcome = "scored"
    /\ Len(reranker.ret.value) = 2
    /\ 1 \notin ReturnedPositions
    /\ reranker.scores[reranker.ret.value[1]] > reranker.scores[reranker.ret.value[2]]

\* C19: for every rerank() call in which scoring succeeds, each returned result has
\* original_rank equal to its 1-based position in that call's input sequence,
\* reranked_rank equal to its 1-based position in the score-descending order of the
\* whole input, and rank_change equal to original_rank minus reranked_rank.
C19_RanksOfThisCall ==
    reranker.outcome = "scored"
    => LET docs == reranker.documents
           v == reranker.ret.value
           ahead(k) == {j \in 1..Len(docs) :
                          \/ reranker.scores[j] > reranker.scores[k]
                          \/ reranker.scores[j] = reranker.scores[k] /\ j < k}
       IN  \A a \in 1..Len(v) :
              /\ docs[v[a]].original_rank = v[a]
              /\ docs[v[a]].reranked_rank = a
              /\ docs[v[a]].reranked_rank = Cardinality(ahead(v[a])) + 1
              /\ docs[v[a]].rank_change = docs[v[a]].original_rank - docs[v[a]].reranked_rank

\* C20: when the scorer fails during rerank(query, candidates, top_k), the call does
\* not raise: it returns the first top_k input candidates, in input order and unchanged
\* (no candidate has been modified by the failed call).
C20_FallbackUnchanged ==
    /\ reranker.pc = "predict" => ENABLED RerankPredict
    /\ reranker.outcome = "failed"
       => /\ reranker.pc = "idle" /\ reranker.ret.op = "rerank"
          /\ reranker.ret.value = [k \in 1..Min(reranker.top_k, Len(reranker.before)) |-> k]
          /\ reranker.documents = reranker.before

\* C20 witness: the scorer has failed on a list longer than top_k, whose documents
\* carried the ranks of an earlier call
C20_Witness ==
    /\ reranker.outcome = "failed"
    /\ Len(reranker.before) > reranker.top_k
    /\ Len(reranker.ret.value) = reranker.top_k
    /\ \E k \in 1..Len(reranker.before) : "rerank_score" \in reranker.before[k].keys

\* the numbers k that stand in an answer as "[k]", in any spelling ("[02]" is 2)
BracketedNumbers(text) ==
    {k \in 0..100 : \E j \in 1..Len(text) :
        /\ text[j].bracketed
        /\ text[j].digits # <<>>
        /\ IntOf(text[j].digits) = k}

Range(list) == {list[k] : k \in 1..Len(list)}

\* C21: for every answer text and every n >= 1, validate_citations partitions the
\* bracketed numbers found in the answer against 1..n: cited is the set of found
\* numbers within 1..n, missing the numbers of 1..n not found, invalid the found numbers
\* outside 1..n; cited and missing are disjoint with union 1..n, and citation_rate is
\* |cited| / n.
C21_CitationPartition ==
    (citations.ret.op = "validate" /\ citations.num_sources >= 1)
    => LET r == citations.ret.value
           n == citations.num_sources
           found == BracketedNumbers(citations.response_text)
       IN  /\ Range(r.cited) = {k \in found : k \in 1..n}
           /\ Range(r.missing) = {k \in 1..n : k \notin found}
           /\ Range(r.invalid) = {k \in found : k \notin 1..n}
           /\ Range(r.cited) \cap Range(r.missing) = {}
           /\ Range(r.cited) \cup Range(r.missing) = 1..n
           /\ r.citation_rate.num * n = Cardinality(Range(r.cited)) * r.citation_rate.den
           /\ r.citation_rate.den > 0

\* C21 witness: the answer with exactly the citations [1] and [3] has been validated
\* against three sources
C21_Witness ==
    /\ citations.ret.op = "validate"
    /\ citations.num_sources = 3
    /\ BracketedNumbers(citations.response_text) = {1, 3}
    /\ citations.ret.value.cited = <<1, 3>>
    /\ citations.ret.value.missing = <<2>>
    /\ citations.ret.value.invalid = <<>>
    /\ citations.ret.value.citation_rate = [num |-> 2, den |-> 3]

\* C30: for every answer text and every number of sources n >= 0, an answer that
\* validate_citations accepts in strict mode (is_valid true) is also accepted in
\* lenient mode.
C30_StrictImpliesLenient ==
    (citations.ret.op = "validate" /\ citations.strict /\ citations.ret.value.is_valid)
    => ValidateCitations(citations.response_text, citations.num_sources, FALSE).is_valid

\* C29: for any text and any 0 <= overlap < chunk_size, every chunk after the first
\* contains at least one token that the preceding chunk does not contain: no chunk's
\* token range is wholly covered by the range of the chunk before it.
C29_ChunkAddsToken ==
    (chunker.ret.op = "chunk" /\ chunker.overlap < chunker.chunk_size)
    => LET v == chunker.ret.value
       IN  \A k \in 2..Len(v) :
              \E p \in v[k].start_token..(v[k].end_token - 1) :
                 ~(v[k - 1].start_token <= p /\ p < v[k - 1].end_token)

\* C28: row ids are never reused: in a single-threaded run of add,
\* delete_by_source_file, clear and restart, every newly inserted row gets a row_id
\* greater than every row_id assigned before (pairing holds every row ever inserted
\* with the tag of its pair, and tags grow with time), so index_to_id is strictly
\* increasing in every reachable state.
C28_RowIdsNeverReused ==
    /\ \A p, q \in pairing : p[2] < q[2] => p[1] < q[1]
    /\ \A p \in pairing : p[1] <= seq
    /\ \A a, b \in 1..Len(index_to_id) : a < b => index_to_id[a] < index_to_id[b]

\* C28 witness: a row was inserted after every earlier row had been removed, and it
\* did not get the id of a removed row
C28_Witness ==
    /\ "removed" \in events
    /\ Cardinality(pairing) = 2
    /\ index_to_id = <<2>>
    /\ {r.id : r \in rows} = {2}

\* the rows that thread t's search could return: rows that an ordinal of the index maps
\* to, with a similarity to the query of at least min_similarity and the file_type
\* asked for
Qualifying(t) ==
    {r \in rows : \E o \in 0..(Min(Len(index), Len(index_to_id)) - 1) :
        /\ index_to_id[o + 1] = r.id
        /\ InnerProduct(NormalizeVector(arg[t].query_embedding), index[o + 1].vec)
              >= arg[t].min_similarity
        /\ arg[t].file_type # "" => r.file_type = arg[t].file_type}

\* C25: the 2x over-fetch keeps post-filtering from starving the result set: for
\* search(query, top_k, min_similarity, file_type), if at least top_k indexed rows
\* satisfy both the file_type filter and min_similarity, the search returns exactly
\* top_k results. (Stated for the runs in which no INSERT of add_documents has failed,
\* so that every vector of the index has its row.)
C25_OverfetchNeverStarves ==
    [][\A t \in Threads :
          (/\ pc[t] \in {"search_faiss", "search_rows"}
           /\ pc'[t] = "idle"
           /\ "rowfail" \notin events
           /\ Cardinality(Qualifying(t)) >= arg[t].top_k)
          => Len(ret'[t].value) = arg[t].top_k]_vars

\* C26: search() never raises and never returns a result for a candidate whose ordinal
\* is the ANN sentinel (-1), lies outside index_to_id, or maps to a row that no longer
\* exists: it skips that candidate and goes on (every step of a search in progress can
\* be taken, and a result is appended only for a candidate whose ordinal is mapped to a
\* row of the table, and it is that row's); in particular no search returns a result
\* whose source_file has no row in the table, as is the case after
\* delete_by_source_file(f) until f is added again.
C26_SearchSkipsUnusable ==
    /\ [](\A t \in Threads :
             /\ pc[t] = "search_faiss" => ENABLED SearchFaiss(t)
             /\ pc[t] = "search_rows" => ENABLED SearchCandidate(t))
    /\ [][\A t \in Threads :
             pc[t] = "search_rows"
             => LET now == IF pc'[t] = "idle" THEN ret'[t].value ELSE results'[t]
                    c == Head(candidates[t])
                IN  /\ Len(now) > Len(results[t])
                       => /\ c.idx # -1
                          /\ c.idx < Len(index_to_id)
                          /\ \E r \in rows :
                                /\ r.id = index_to_id[c.idx + 1]
                                /\ r.source_file = now[Len(now)].source_file
                                /\ r.tag = now[Len(now)].tag
                    /\ pc'[t] = "idle"
                       => \A k \in 1..Len(now) :
                             \E r \in rows : r.source_file = now[k].source_file]_vars

\* C26 witness: after a delete, a search has come to a candidate that passes the
\* similarity threshold and whose ordinal maps to a row that is gone
C26_Witness ==
    /\ pc[MainThread] = "search_rows"
    /\ "removed" \in events
    /\ "rowfail" \notin events
    /\ LET c == Head(candidates[MainThread])
       IN  /\ c.distance >= arg[MainThread].min_similarity
           /\ c.idx < Len(index_to_id)
           /\ FetchRow(rows, index_to_id[c.idx + 1]) = {}
    /\ rows # {}

\* how many times the running query has called a collaborator
CallCount(name) == Cardinality({k \in 1..Len(agent.calls) : agent.calls[k] = name})

\* the contexts that the running query has sent to the generation model for a side
ContextsOf(side) ==
    {agent.prompts[k].context : k \in {j \in 1..Len(agent.prompts) :
                                          agent.prompts[j].side = side}}

\* C22: compare(question, ...) performs exactly one query embedding and exactly one
\* vector-store search (never a second one while it runs, one of each when it
\* returns), and both compared sides are built from that single candidate list: the
\* side without reranking uses the first top_k_final search results, unmodified by the
\* reranking done for the other side, and the other side uses results of the same list.
C22_CompareSingleRetrieval ==
    agent.entry \in {"compare_with_reranking", "compare_responses"}
    => /\ CallCount("embed") <= 1 /\ CallCount("search") <= 1
       /\ agent.ret.op = "query" => CallCount("embed") = 1 /\ CallCount("search") = 1
       /\ \A c \in ContextsOf("without_reranking") \cup ContextsOf("with_rag") :
             /\ c.kind = "documents" => c.parts = FirstTopK(agent.found, agent.top_k_final)
             /\ c.kind = "message" => agent.found = <<>>
       /\ \A c \in ContextsOf("with_reranking") :
             /\ \A k \in 1..Len(c.parts) :
                   \E j \in 1..Len(agent.found) : agent.found[j].id = c.parts[k].id
             /\ \A k, j \in 1..Len(c.parts) : k # j => c.parts[k].id # c.parts[j].id
       /\ \A c \in ContextsOf("without_rag") : c.kind = "question"

\* C22 witness: a comparison has returned both sides, from more search results than
\* top_k_final, and the reranking has put another result first
C22_Witness ==
    /\ agent.entry = "compare_with_reranking"
    /\ agent.ret.op = "query"
    /\ agent.scored
    /\ Len(agent.found) > agent.top_k_final
    /\ Len(agent.prompts) = 2
    /\ agent.prompts[1].context.parts[1].id = 1
    /\ agent.prompts[2].context.parts[1].id # 1
    /\ "rerank_score" \in agent.prompts[2].context.parts[1].keys

\* C23: in every retrieval mode of the orchestrator, whenever no passage is left to
\* give to the generation step (the search returned nothing, or every candidate was
\* removed by min_similarity or by rerank_threshold), the generation model is never
\* called with an empty documents context: the context is the explicit 'no relevant
\* documents found' message.
C23_NoEmptyContext ==
    \A k \in 1..Len(agent.prompts) :
        LET c == agent.prompts[k].context
        IN  agent.prompts[k].side # "without_rag"
            => IF c.parts = <<>>
               THEN /\ c.kind = "message"
                    /\ c.text \in {NoDocumentsInKnowledgeBase, NoDocumentsFound}
               ELSE c.kind = "documents"

\* C24: every retrieval query of the orchestrator runs its steps in the order
\* embed(query), search, optional rerank, Citation Manager build_context, generation,
\* Citation Manager validate: the prompt sent to the generation model is the numbered
\* citation context built by the Citation Manager, and the answer is validated against
\* it after generation, the validation never blocking the return of the answer.
C24_CitationPipeline ==
    (agent.ret.op = "query"
     /\ \E k \in 1..Len(agent.prompts) : agent.prompts[k].side # "without_rag")
    => \E e, s, b, g, v \in 1..Len(agent.calls) :
          /\ e < s /\ s < b /\ b < g /\ g < v
          /\ agent.calls[e] = "embed"
          /\ agent.calls[s] = "search"
          /\ agent.calls[b] = "build_context"
          /\ agent.calls[g] = "generate"
          /\ agent.calls[v] = "validate"

\* C27: query_with_retrieval_and_reranking (of an orchestrator that has a reranker)
\* uses exactly the passages obtained by reranking all retrieved candidates, then
\* keeping those with rerank_score >= rerank_threshold, then truncating to
\* top_k_final: the passages used are the top_k_final highest-scoring candidates among
\* those meeting the threshold, in non-increasing rerank_score order (a candidate that
\* the reranker could not score counts with the score 0, as the filter reads it).
C27_ThresholdThenTruncate ==
    \A c \in ContextsOf("with_rag_reranking") :
        LET n == Len(agent.found)
            score(k) == IF agent.scored THEN agent.scores[k] ELSE 0
            meets(k) == agent.rerank_threshold.given
                        => score(k) >= agent.rerank_threshold.value
            used == c.parts
            ids == {used[k].id : k \in 1..Len(used)}
        IN  /\ ids \subseteq {k \in 1..n : meets(k)}
            /\ Cardinality(ids) = Len(used)
            /\ Len(used) = Min(agent.top_k_final, Cardinality({k \in 1..n : meets(k)}))
            /\ \A k \in 1..Len(used) : RerankScoreOf(used[k]) = score(used[k].id)
            /\ \A k \in 2..Len(used) : score(used[k - 1].id) >= score(used[k].id)
            /\ \A k \in (1..n) \ ids : \A u \in ids : meets(k) => score(k) <= score(u)

\* C27 witness: of three scored candidates one is below the threshold and two meet it,
\* and the one passage asked for is used
C27_Witness ==
    /\ agent.mode = "with_rag_reranking"
    /\ agent.scored
    /\ agent.rerank_threshold = [given |-> TRUE, value |-> 2]
    /\ Len(agent.found) = 3
    /\ Cardinality({k \in 1..3 : agent.scores[k] >= 2}) = 2
    /\ agent.top_k_final = 1
    /\ \E c \in ContextsOf("with_rag_reranking") : Len(c.parts) = 1
====
